---- MODULE Spec2Model ----
(***************************************************************************)
(* genaJam MIDI file player: the mode dispatcher (loop), the navigation    *)
(* FSM (lcdFSM) and the playback FSM (midiFSM) of                           *)
(* genajam_midi_file_player.ino, with the collaborators they call (SdFat    *)
(* playlist file, MD_UISwitch buttons, MD_MIDIFile sequencer, Serial1)      *)
(* modelled as an environment that picks every result they can return.     *)
(***************************************************************************)
EXTENDS Integers, Sequences, FiniteSets, TLC

\* ---------------------------------------------------------------- bounds
\* Playlist lengths explored: 0..MaxSmallCount and 2^8..2^8+MaxOver, where
\* the 16-bit count no longer fits the 8-bit cursor.
MaxSmallCount == 3
MaxOver == 1
\* load() failure codes explored: -MaxErr..-1.
MaxErr == 2
\* Longest MIDI file, in events.
MaxEvents == 1
\* Largest size of an event given to midiCallback.
MaxEventSize == 3
\* Values each data byte of such an event takes: 0..MaxDataByte and 127.
MaxDataByte == 0
\* Most entries in the directory the playlist build scans.
MaxDirLen == 2

\* ------------------------------------------------------ program constants
FNAME_SIZE == 13
UINT8_MOD == 256
UINT16_MOD == 65536
NUM_CHANNELS == 16
E_OK == 0

\* LCD_KEYS[] = { up, down, right, left, select }
BTN_UP == 0
BTN_DOWN == 1
BTN_RIGHT == 2
BTN_LEFT == 3
BTN_SELECT == 4
Buttons == {BTN_UP, BTN_DOWN, BTN_RIGHT, BTN_LEFT, BTN_SELECT}

\* enum lcd_state, midi_state, seq_state
LSBegin == "LSBegin"
LSSelect == "LSSelect"
LSShowFile == "LSShowFile"
MSBegin == "MSBegin"
MSLoad == "MSLoad"
MSOpen == "MSOpen"
MSProcess == "MSProcess"
MSClose == "MSClose"
LCDSeq == "LCDSeq"
MIDISeq == "MIDISeq"

PlCounts ==
  {n \in (0..MaxSmallCount) \cup (UINT8_MOD..(UINT8_MOD + MaxOver)) :
      n < UINT16_MOD}

LoadCodes == (-MaxErr)..E_OK

VARIABLES
  pc,          \* "setup", "loop" (setup returned, loop() runs forever), "halted" (while (fStop) ;)
  plCount,     \* uint16_t plCount
  errMsg,      \* the LCDErrMessage text showing on row 1 of the LCD ("" when none)
  mode,        \* loop(): static seq_state s
  lcdS,        \* lcdFSM(): static lcd_state s
  plIndex,     \* lcdFSM(): static uint8_t plIndex
  plFileOpen,  \* lcdFSM(): static SdFile plFile, isOpen()
  fname,       \* char fname[FNAME_SIZE+1]
  marks,       \* the two characters printed at column LCD_COLS-2 of row 1
  midiS,       \* midiFSM(): static midi_state s
  smfLen,      \* sequencer: events in the loaded file
  smfPos,      \* sequencer: events already played
  smfPaused,   \* sequencer: pause flag
  session,     \* history of the playback session under way (cleared when it ends)
  pressed,     \* the buttons that report KEY_PRESS when read in the last tick
  act,         \* the button action performed in the last tick
  calls,       \* the calls made in the last tick, in order
  out,         \* the bytes written to Serial1 in the last tick, in order
  fsmRun,      \* the FSMs invoked by the last tick, in order
  cbEvent,     \* midiCallback(): the event *pev of the last call
  dir,         \* createPlaylistFile(): the entries SD.vwd() holds, in openNext order
  dpos,        \* createPlaylistFile(): the entries openNext has returned
  bfname,      \* createPlaylistFile(): its local char fname[FNAME_SIZE+1]
  bcount,      \* createPlaylistFile(): count
  plBytes,     \* the bytes of PLAYLIST.TXT
  wpos,        \* createPlaylistFile(): the write position of plFile
  written      \* the names createPlaylistFile has written, in order

vars == <<pc, plCount, errMsg, mode, lcdS, plIndex, plFileOpen, fname, marks,
          midiS, smfLen, smfPos, smfPaused, session, pressed, act, calls, out,
          fsmRun, cbEvent, dir, dpos, bfname, bcount, plBytes, wpos, written>>

lcdVars == <<lcdS, plIndex, plFileOpen, fname, marks>>
midiVars == <<midiS, smfLen, smfPos, smfPaused, session>>
buildVars == <<dir, dpos, bfname, bcount, plBytes, wpos, written>>

\* ------------------------------------------------------------ MIDI output
RECURSIVE BitOr(_, _)
BitOr(a, b) ==
  IF a = 0 THEN b
  ELSE IF b = 0 THEN a
  ELSE (IF a % 2 = 1 \/ b % 2 = 1 THEN 1 ELSE 0) + 2 * BitOr(a \div 2, b \div 2)

midiCallbackBelowE0(ev) ==
  IF ev.data[1] >= 128 /\ ev.data[1] < 224
  THEN <<BitOr(ev.data[1], ev.channel)>> \o SubSeq(ev.data, 2, ev.size)
  ELSE SubSeq(ev.data, 1, ev.size)

\* midiCallback with DEBUG_ON 0: the bytes written to Serial1 for one event.
midiCallback(ev) ==
  IF ev.data[1] >= 128 /\ ev.data[1] <= 224
  THEN <<BitOr(ev.data[1], ev.channel)>> \o SubSeq(ev.data, 2, ev.size)
  ELSE SubSeq(ev.data, 1, ev.size)

SilenceEventAllNotesOff(ch) == [size |-> 3, data |-> <<176, 123, 0>>, channel |-> ch]

\* The event midiSilence builds: control change 120 (all sound off), value 0.
SilenceEvent(ch) == [size |-> 3, data |-> <<176, 120, 0>>, channel |-> ch]

RECURSIVE SilenceFrom(_)
SilenceFrom(ch) ==
  IF ch < NUM_CHANNELS
  THEN midiCallback(SilenceEvent(ch)) \o SilenceFrom(ch + 1)
  ELSE <<>>

midiSilence == SilenceFrom(0)

\* The event the sequencer hands to midiCallback when it plays one event of
\* the file: a note-on on channel 1.
FileEvent == [size |-> 3, data |-> <<144, 60, 100>>, channel |-> 1]

\* ------------------------------------------------------------------ setup
\* setup(): the message of the fatal LCDErrMessage(msg, true) it reaches, ""
\* when it reaches none. sdOk: SD.begin succeeded; plOk: the playlist file
\* could be created; n: the number of .MID files createPlaylistFile counted.
SetupErrorNoCountCheck(sdOk, plOk, n) ==
  IF ~sdOk THEN "SD init fail!"
  ELSE IF ~plOk THEN "PL create fail"
  ELSE ""

SetupError(sdOk, plOk, n) ==
  IF ~sdOk THEN "SD init fail!"
  ELSE IF ~plOk THEN "PL create fail"
  ELSE IF n = 0 THEN "No files"
  ELSE ""

NoSession == [load |-> "none", processed |-> FALSE, advCalled |-> FALSE]

\* The globals and the FSMs' statics as the program starts
InitProgram ==
  /\ plCount = 0
  /\ errMsg = ""
  /\ mode = LCDSeq
  /\ lcdS = LSBegin
  /\ plIndex = 0
  /\ plFileOpen = FALSE
  /\ fname = [k \in 1..(FNAME_SIZE + 1) |-> 0]
  /\ marks = <<>>
  /\ midiS = MSBegin
  /\ smfLen = 0
  /\ smfPos = 0
  /\ smfPaused = FALSE
  /\ session = NoSession
  /\ pressed = {}
  /\ act = "none"
  /\ calls = <<>>
  /\ out = <<>>
  /\ fsmRun = <<>>

\* No event given to midiCallback yet
NoEvent == [size |-> 0, data |-> <<>>, channel |-> 0]

\* The playlist build left out: setup draws its result
InitNoBuild ==
  /\ dir = <<>>
  /\ dpos = 0
  /\ bfname = <<>>
  /\ bcount = 0
  /\ plBytes = <<>>
  /\ wpos = 0
  /\ written = <<>>

Init ==
  /\ pc = "setup"
  /\ InitProgram
  /\ cbEvent = NoEvent
  /\ InitNoBuild

setup ==
  /\ pc = "setup"
  /\ \E sdOk \in BOOLEAN, plOk \in BOOLEAN, n \in PlCounts :
       LET e == SetupError(sdOk, plOk, n) IN
         /\ errMsg' = e
         /\ pc' = IF e = "" THEN "loop" ELSE "halted"
         /\ plCount' = IF sdOk /\ plOk THEN n ELSE 0
  /\ UNCHANGED <<mode, lcdVars, midiVars, pressed, act, calls, out, fsmRun>>
  /\ UNCHANGED <<cbEvent, buildVars>>

\* ---------------------------------------------------------- navigation FSM
\* Byte p of the playlist file: createPlaylistFile writes the name of the
\* i-th matching file as the FNAME_SIZE bytes at offset i * FNAME_SIZE. Every
\* byte of the file is given a value of its own, NameByte(i, j) for byte j of
\* the name of matching file i, and 0 is the NUL of the zero-initialised
\* buffer, so a read at a wrong offset or of a wrong length shows.
NameByte(i, j) == 1 + i * FNAME_SIZE + j

PlFileByte(p) == NameByte(p \div FNAME_SIZE, p % FNAME_SIZE)

PlFileSize == plCount * FNAME_SIZE

SeekOffsetUnscaled(i) == i

\* plFile.seekSet(FNAME_SIZE*plIndex)
SeekOffset(i) == FNAME_SIZE * i

\* plFile.read(buf, FNAME_SIZE) at offset off of a file of size bytes,
\* bytes[p] being its byte at offset p: the bytes the file holds there
\* replace the head of the buffer, the rest of the buffer is kept.
ReadRecord(buf, off, size, bytes) ==
  [k \in 1..(FNAME_SIZE + 1) |->
     IF k <= FNAME_SIZE /\ off + k - 1 < size
     THEN bytes[off + k - 1]
     ELSE buf[k]]

\* plFile.read(fname, FNAME_SIZE) at offset off of the playlist file
ReadFname(buf, off) ==
  ReadRecord(buf, off, PlFileSize, [p \in 0..(PlFileSize - 1) |-> PlFileByte(p)])

MarkersRightAtCount(c, n) ==
  <<IF c = 0 THEN " " ELSE "<", IF c = n THEN " " ELSE ">">>

\* LCD.print(plIndex == 0 ? ' ' : '<'); LCD.print(plIndex == plCount-1 ? ' ' : '>')
Markers(c, n) ==
  <<IF c = 0 THEN " " ELSE "<", IF c = n - 1 THEN " " ELSE ">">>

lcdKeyLeftFirst(P) ==
  IF BTN_LEFT \in P THEN "left"
  ELSE IF BTN_SELECT \in P THEN "select"
  ELSE IF BTN_UP \in P THEN "up"
  ELSE IF BTN_DOWN \in P THEN "down"
  ELSE IF BTN_RIGHT \in P THEN "right"
  ELSE "none"

\* The else-if chain of BTN[i]->read() == KEY_PRESS in LSSelect.
lcdKey(P) ==
  IF BTN_SELECT \in P THEN "select"
  ELSE IF BTN_LEFT \in P THEN "left"
  ELSE IF BTN_UP \in P THEN "up"
  ELSE IF BTN_DOWN \in P THEN "down"
  ELSE IF BTN_RIGHT \in P THEN "right"
  ELSE "none"

\* plIndex is a uint8_t: every store keeps the low 8 bits.
CursorLeft(c) == IF c # 0 THEN (c - 1) % UINT8_MOD ELSE c
CursorUp == 0
CursorDown(n) == (n - 1) % UINT8_MOD
CursorRightNoClamp(c, n) == (c + 1) % UINT8_MOD

CursorRight(c, n) == IF c # n - 1 THEN (c + 1) % UINT8_MOD ELSE c

CursorAfter(key, c, n) ==
  CASE key = "left" -> CursorLeft(c)
    [] key = "up" -> CursorUp
    [] key = "down" -> CursorDown(n)
    [] key = "right" -> CursorRight(c, n)
    [] OTHER -> c

SelectNextNoReset(key) ==
  CASE key = "select" -> LSSelect
    [] key = "none" -> LSSelect
    [] OTHER -> LSShowFile

\* s after the LSSelect case
SelectNext(key) ==
  CASE key = "select" -> LSBegin
    [] key = "none" -> LSSelect
    [] OTHER -> LSShowFile

\* curSS after the LSSelect case
SelectMode(key, curSS) == IF key = "select" THEN MIDISeq ELSE curSS

LcdBegin(curSS, ret) ==
  /\ lcdS = LSBegin
  /\ ret = curSS
  /\ \E openOk \in BOOLEAN :
       IF ~plFileOpen /\ ~openOk
       THEN /\ errMsg' = "PL file no open"
            /\ pc' = "halted"
            /\ UNCHANGED <<lcdS, plFileOpen>>
       ELSE /\ plFileOpen' = TRUE
            /\ lcdS' = LSShowFile
            /\ UNCHANGED <<errMsg, pc>>
  /\ pressed' = {}
  /\ act' = "none"
  /\ calls' = <<>>
  /\ out' = <<>>
  /\ UNCHANGED <<plIndex, fname, marks>>

LcdShowFile(curSS, ret) ==
  /\ lcdS = LSShowFile
  /\ ret = curSS
  /\ fname' = ReadFname(fname, SeekOffset(plIndex))
  /\ marks' = Markers(plIndex, plCount)
  /\ lcdS' = LSSelect
  /\ errMsg' = ""
  /\ pressed' = {}
  /\ act' = "none"
  /\ calls' = <<>>
  /\ out' = <<>>
  /\ UNCHANGED <<plIndex, plFileOpen, pc>>

LcdSelect(curSS, ret) ==
  /\ lcdS = LSSelect
  /\ \E P \in SUBSET Buttons :
       LET key == lcdKey(P) IN
         /\ pressed' = P
         /\ act' = key
         /\ plIndex' = CursorAfter(key, plIndex, plCount)
         /\ lcdS' = SelectNext(key)
         /\ ret = SelectMode(key, curSS)
  /\ calls' = <<>>
  /\ out' = <<>>
  /\ UNCHANGED <<plFileOpen, fname, marks, errMsg, pc>>

lcdFSM(curSS, ret) ==
  \/ LcdBegin(curSS, ret)
  \/ LcdShowFile(curSS, ret)
  \/ LcdSelect(curSS, ret)

\* ------------------------------------------------------------ playback FSM
LoadNextIgnoresErr(err) == MSProcess

\* s after the MSLoad case, err being what SMF.load(fname) returned
LoadNext(err) == IF err = E_OK THEN MSProcess ELSE MSClose

\* The fStop argument of LCDErrMessage(aErr, false) in MSLoad
LoadErrStop == FALSE

\* The buttons MSProcess polls
TransportButtons == {BTN_LEFT, BTN_RIGHT, BTN_UP, BTN_DOWN}

\* The else-if chain of BTN[i]->read() == KEY_PRESS in MSProcess.
midiKey(P) ==
  IF BTN_LEFT \in P THEN "rewind"
  ELSE IF BTN_RIGHT \in P THEN "stop"
  ELSE IF BTN_UP \in P THEN "pause"
  ELSE IF BTN_DOWN \in P THEN "resume"
  ELSE "none"

ProcessNextStopIgnored(eof, key) == IF eof THEN MSClose ELSE MSProcess

ProcessNextRewindCloses(eof, key) ==
  IF key \in {"stop", "rewind"} THEN MSClose
  ELSE IF eof THEN MSClose
  ELSE MSProcess

ProcessNextRewindReplays(eof, key) ==
  IF key = "stop" THEN MSClose
  ELSE IF key = "rewind" THEN MSProcess
  ELSE IF eof THEN MSClose
  ELSE MSProcess

\* s after the MSProcess case: the isEOF test, then the key chain
ProcessNext(eof, key) ==
  IF key = "stop" THEN MSClose
  ELSE IF eof THEN MSClose
  ELSE MSProcess

KeyCallsResumeSilences(key) ==
  CASE key = "rewind" -> <<"midiSilence", "restart">>
    [] key = "pause" -> <<"pause(true)", "midiSilence">>
    [] key = "resume" -> <<"pause(false)", "midiSilence">>
    [] OTHER -> <<>>

\* The calls each transport key makes, in order
KeyCalls(key) ==
  CASE key = "rewind" -> <<"midiSilence", "restart">>
    [] key = "pause" -> <<"pause(true)", "midiSilence">>
    [] key = "resume" -> <<"pause(false)">>
    [] OTHER -> <<>>

\* Whether call c is among the calls cs
Called(cs, c) == \E i \in DOMAIN cs : cs[i] = c

\* The bytes the calls cs send to Serial1: those of each midiSilence()
RECURSIVE SilenceOut(_)
SilenceOut(cs) ==
  IF cs = <<>> THEN <<>>
  ELSE (IF Head(cs) = "midiSilence" THEN midiSilence ELSE <<>>) \o SilenceOut(Tail(cs))

CloseCallsNoSilence == <<"close">>

\* The calls the MSClose case makes, in order
CloseCalls == <<"close", "midiSilence">>

CloseModeStays == MIDISeq

\* curSS after the MSClose case
CloseMode == LCDSeq

\* SMF.isEOF()
isEOF == smfPos >= smfLen

MidiBegin(curSS, ret) ==
  /\ midiS = MSBegin
  /\ ret = curSS
  /\ midiS' = MSLoad
  /\ session' = NoSession
  /\ errMsg' = ""
  /\ pressed' = {}
  /\ act' = "none"
  /\ calls' = <<>>
  /\ out' = <<>>
  /\ UNCHANGED <<smfLen, smfPos, smfPaused, pc>>

MidiLoad(curSS, ret) ==
  /\ midiS = MSLoad
  /\ ret = curSS
  /\ \E err \in LoadCodes, len \in 1..MaxEvents :
       /\ midiS' = LoadNext(err)
       /\ IF err = E_OK
          THEN /\ smfLen' = len
               /\ smfPos' = 0
               /\ session' = [session EXCEPT !.load = "ok"]
               /\ UNCHANGED <<errMsg, pc>>
          ELSE /\ errMsg' = "SMF error"
               /\ pc' = IF LoadErrStop THEN "halted" ELSE pc
               /\ session' = [session EXCEPT !.load = "fail"]
               /\ UNCHANGED <<smfLen, smfPos>>
  /\ pressed' = {}
  /\ act' = "none"
  /\ calls' = <<"load">>
  /\ out' = <<>>
  /\ UNCHANGED smfPaused

\* due: the sequencer's clock says an event of the file is due in this call
\* of getNextEvent (it plays none while paused).
MidiProcess(curSS, ret) ==
  /\ midiS = MSProcess
  /\ ret = curSS
  /\ \E P \in SUBSET TransportButtons, due \in BOOLEAN :
       LET eof == isEOF
           key == midiKey(P)
           played == ~eof /\ ~smfPaused /\ due
           pos1 == IF played THEN smfPos + 1 ELSE smfPos
       IN
         /\ pressed' = P
         /\ act' = key
         /\ midiS' = ProcessNext(eof, key)
         /\ smfPos' = IF Called(KeyCalls(key), "restart") THEN 0 ELSE pos1
         /\ smfPaused' = CASE Called(KeyCalls(key), "pause(true)") -> TRUE
                           [] Called(KeyCalls(key), "pause(false)") -> FALSE
                           [] OTHER -> smfPaused
         /\ calls' = (IF eof THEN <<"isEOF=true">> ELSE <<"isEOF=false", "getNextEvent">>)
                       \o KeyCalls(key)
         /\ out' = (IF played THEN midiCallback(FileEvent) ELSE <<>>) \o SilenceOut(KeyCalls(key))
         /\ session' = [session EXCEPT !.processed = TRUE,
                                       !.advCalled = session.advCalled \/ ~eof]
  /\ UNCHANGED <<smfLen, errMsg, pc>>

MidiClose(curSS, ret) ==
  /\ midiS = MSClose
  /\ ret = CloseMode
  /\ midiS' = MSBegin
  /\ smfLen' = 0
  /\ smfPos' = 0
  /\ smfPaused' = FALSE
  /\ pressed' = {}
  /\ act' = "none"
  /\ calls' = CloseCalls
  /\ out' = SilenceOut(CloseCalls)
  /\ session' = NoSession
  /\ UNCHANGED <<errMsg, pc>>

midiFSM(curSS, ret) ==
  \/ MidiBegin(curSS, ret)
  \/ MidiLoad(curSS, ret)
  \/ MidiProcess(curSS, ret)
  \/ MidiClose(curSS, ret)

\* ------------------------------------------------------------- dispatcher
DispatchSwapped(m) == IF m = LCDSeq THEN "midiFSM" ELSE "lcdFSM"

DispatchAlwaysLcd(m) == "lcdFSM"

\* switch (s) in loop(): the FSM called for mode m
Dispatch(m) == IF m = LCDSeq THEN "lcdFSM" ELSE "midiFSM"

\* One iteration of loop(): s = lcdFSM(s) or s = midiFSM(s)
loop ==
  /\ pc = "loop"
  /\ \E ret \in {LCDSeq, MIDISeq} :
       /\ \/ /\ Dispatch(mode) = "lcdFSM"
             /\ lcdFSM(mode, ret)
             /\ fsmRun' = <<"lcdFSM">>
             /\ UNCHANGED midiVars
          \/ /\ Dispatch(mode) = "midiFSM"
             /\ midiFSM(mode, ret)
             /\ fsmRun' = <<"midiFSM">>
             /\ UNCHANGED lcdVars
       /\ mode' = ret
  /\ UNCHANGED <<plCount, cbEvent, buildVars>>

Next == setup \/ loop

Spec == Init /\ [][Next]_vars

\* loop() is called again and again for as long as the process has not
\* halted: a tick that can change the state is eventually taken.
FairSpec == Spec /\ WF_vars(loop)

\* ---------------------------------------------------- midiCallback alone
\* The status bytes data[0] of the events given to midiCallback. The channel
\* travels in pev->channel and the status byte carries the command alone,
\* its low nibble 0, as in the event midiSilence builds; 0xF0..0xFF are the
\* system statuses, which have no channel; below 0x80 is no status at all.
StatusBytes == {s \in 0..(UINT8_MOD - 1) : s % NUM_CHANNELS = 0 \/ s >= 240}

DataBytes == (0..MaxDataByte) \cup {127}

CallbackEvents ==
  {[size |-> n, data |-> <<s, d, 127 - d, d>>, channel |-> ch] :
     n \in 1..MaxEventSize, s \in StatusBytes, d \in DataBytes,
     ch \in 0..(NUM_CHANNELS - 1)}

InitCallback ==
  /\ pc = "callback"
  /\ InitProgram
  /\ cbEvent = NoEvent
  /\ InitNoBuild

\* One call of midiCallback(pev)
CallMidiCallback ==
  /\ pc = "callback"
  /\ \E ev \in CallbackEvents :
       /\ cbEvent' = ev
       /\ out' = midiCallback(ev)
  /\ calls' = <<"midiCallback">>
  /\ UNCHANGED <<pc, plCount, errMsg, mode, lcdVars, midiVars, pressed, act,
                 fsmRun, buildVars>>

SpecCallback == InitCallback /\ [][CallMidiCallback]_vars

\* ------------------------------------------------- createPlaylistFile
\* Characters are their ASCII codes; a C string ends at its first 0.
MIDI_EXT == <<46, 77, 73, 68>>

\* The names of the directory entries: "A.MID", "b.mid", "C.TXT", "MID", "D",
\* "AMID", "LONGNAME.MID", each within the 12 characters of an 8.3 name.
FileNames ==
  { <<65, 46, 77, 73, 68>>, <<98, 46, 109, 105, 100>>, <<67, 46, 84, 88, 84>>,
    <<77, 73, 68>>, <<68>>, <<65, 77, 73, 68>>,
    <<76, 79, 78, 71, 78, 65, 77, 69, 46, 77, 73, 68>> }

\* A directory entry: its name, and whether mFile.isFile() holds for it
Entries == [name : FileNames, isFile : BOOLEAN]

Directories ==
  UNION { {d \in [1..n -> Entries] :
             \A a, b \in 1..n : a # b => d[a].name # d[b].name} :
          n \in 0..MaxDirLen }

\* char fname[FNAME_SIZE+1] is a local without initialiser: what it holds
\* on entry is whatever the stack held, here all 0 or all 'Z'.
StaleBuffers == {[k \in 1..(FNAME_SIZE + 1) |-> b] : b \in {0, 90}}

\* The bytes in memory before fname, where &fname[strlen(fname) - 4] points
\* when the name is shorter than the extension: 0 or '.'.
JunkBytes == {0, 46}

\* O_CREAT | O_WRITE does not truncate: the file keeps what an earlier build
\* left, here nothing or one record and a byte of '?'.
OldPlaylists == {<<>>, [k \in 1..(FNAME_SIZE + 1) |-> 63]}

\* strlen
StrLen(buf) ==
  CHOOSE n \in 0..Len(buf) :
    /\ \A j \in 1..n : buf[j] # 0
    /\ n = Len(buf) \/ buf[n + 1] = 0

CStr(buf) == SubSeq(buf, 1, StrLen(buf))

ToLower(c) == IF c >= 65 /\ c <= 90 THEN c + 32 ELSE c

\* strcasecmp(a, b) == 0
StrCaseEqual(a, b) ==
  LET x == CStr(a)
      y == CStr(b)
  IN /\ Len(x) = Len(y)
     /\ \A k \in 1..Len(x) : ToLower(x[k]) = ToLower(y[k])

\* mFile.getName(fname, FNAME_SIZE): the name and its terminating 0 replace
\* the head of the buffer, the rest of the buffer is kept.
GetName(buf, name) ==
  [k \in 1..(FNAME_SIZE + 1) |->
     IF k <= Len(name) THEN name[k]
     ELSE IF k = Len(name) + 1 THEN 0
     ELSE buf[k]]

\* The string at &fname[strlen(fname) - strlen(MIDI_EXT)]: the last four
\* characters of the name, or, for a shorter name, the bytes junk that lie
\* before the buffer followed by the name.
SuffixString(buf, junk) ==
  LET n == StrLen(buf)
      e == Len(MIDI_EXT)
  IN IF n >= e
     THEN SubSeq(buf, n - e + 1, n)
     ELSE CStr(junk \o SubSeq(buf, 1, n))

ExtMatches(buf, junk) == StrCaseEqual(MIDI_EXT, SuffixString(buf, junk))

RecordBytesNameOnly(buf) == CStr(buf) \o <<0>>

\* The bytes plFile.write(fname, FNAME_SIZE) writes
RecordBytes(buf) == SubSeq(buf, 1, FNAME_SIZE)

\* A write of rec at position pos of a file holding bytes
WriteAt(bytes, pos, rec) ==
  LET end == pos + Len(rec)
      size == IF Len(bytes) > end THEN Len(bytes) ELSE end
  IN [k \in 1..size |->
        IF k > pos /\ k <= end THEN rec[k - pos] ELSE bytes[k]]

InitBuild ==
  /\ pc = "create"
  /\ InitProgram
  /\ cbEvent = NoEvent
  /\ dir \in Directories
  /\ dpos = 0
  /\ bfname \in StaleBuffers
  /\ bcount = 0
  /\ plBytes \in OldPlaylists
  /\ wpos = 0
  /\ written = <<>>

\* plFile.open(PLAYLIST_FILE, O_CREAT | O_WRITE), then SD.vwd()->rewind()
BuildOpen ==
  /\ pc = "create"
  /\ \E plOk \in BOOLEAN :
       IF plOk
       THEN pc' = "scan" /\ UNCHANGED errMsg
       ELSE pc' = "halted" /\ errMsg' = "PL create fail"
  /\ UNCHANGED <<plCount, mode, lcdVars, midiVars, pressed, act, calls, out,
                 fsmRun, cbEvent, buildVars>>

\* One round of while (mFile.openNext(...))
BuildScan ==
  /\ pc = "scan"
  /\ dpos < Len(dir)
  /\ LET e == dir[dpos + 1]
         buf == GetName(bfname, e.name)
         short == IF StrLen(buf) < Len(MIDI_EXT)
                  THEN Len(MIDI_EXT) - StrLen(buf) ELSE 0
     IN /\ bfname' = buf
        /\ \E junk \in [1..short -> JunkBytes] :
             IF e.isFile /\ ExtMatches(buf, junk)
             THEN /\ plBytes' = WriteAt(plBytes, wpos, RecordBytes(buf))
                  /\ wpos' = wpos + Len(RecordBytes(buf))
                  /\ bcount' = (bcount + 1) % UINT16_MOD
                  /\ written' = Append(written, CStr(buf))
             ELSE UNCHANGED <<plBytes, wpos, bcount, written>>
  /\ dpos' = dpos + 1
  /\ UNCHANGED <<pc, plCount, errMsg, mode, lcdVars, midiVars, pressed, act,
                 calls, out, fsmRun, cbEvent, dir>>

\* openNext fails: plFile.close(), return(count), and setup's use of it
BuildDone ==
  /\ pc = "scan"
  /\ dpos = Len(dir)
  /\ plCount' = bcount
  /\ IF bcount = 0
     THEN pc' = "halted" /\ errMsg' = "No files"
     ELSE pc' = "built" /\ UNCHANGED errMsg
  /\ UNCHANGED <<mode, lcdVars, midiVars, pressed, act, calls, out, fsmRun,
                 cbEvent, buildVars>>

\* The LSShowFile step with the cursor at i, on the file the build wrote
ShowBuiltFile ==
  /\ pc \in {"built", "show"}
  /\ \E i \in 0..(plCount - 1) :
       /\ i < UINT8_MOD
       /\ plIndex' = i
       /\ fname' = ReadRecord(fname, SeekOffset(i), Len(plBytes),
                              [p \in 0..(Len(plBytes) - 1) |-> plBytes[p + 1]])
       /\ marks' = Markers(i, plCount)
  /\ pc' = "show"
  /\ plFileOpen' = TRUE
  /\ lcdS' = LSSelect
  /\ UNCHANGED <<plCount, errMsg, mode, midiVars, pressed, act, calls, out,
                 fsmRun, cbEvent, buildVars>>

NextBuild == BuildOpen \/ BuildScan \/ BuildDone \/ ShowBuiltFile

SpecBuild == InitBuild /\ [][NextBuild]_vars

\* ------------------------------------------------------------- properties
Max(a, b) == IF a >= b THEN a ELSE b
Min(a, b) == IF a <= b THEN a ELSE b

\* The playlist entry at index i as it fills the filename buffer: its
\* FNAME_SIZE bytes and the buffer's last byte, never written, still NUL.
Entry(i) ==
  [k \in 1..(FNAME_SIZE + 1) |-> IF k <= FNAME_SIZE THEN NameByte(i, k - 1) ELSE 0]

\* All-sound-off for channels ch..15: (0xB0 + ch), 120, 0 for each.
RECURSIVE AllSoundOffFrom(_)
AllSoundOffFrom(ch) ==
  IF ch > 15 THEN <<>> ELSE <<176 + ch, 120, 0>> \o AllSoundOffFrom(ch + 1)

AllSoundOff16 == AllSoundOffFrom(0)

\* Whether byte sequence o ends with all-sound-off for all 16 channels
EndsSilenced(o) ==
  /\ Len(o) >= Len(AllSoundOff16)
  /\ SubSeq(o, Len(o) - Len(AllSoundOff16) + 1, Len(o)) = AllSoundOff16

\* The first button of the priority order that is among the pressed ones P,
\* -1 when none is.
FirstPressed(order, P) ==
  IF \E i \in DOMAIN order : order[i] \in P
  THEN order[CHOOSE i \in DOMAIN order :
                 order[i] \in P /\ \A j \in 1..(i - 1) : order[j] \notin P]
  ELSE -1

NavAction(b) ==
  CASE b = BTN_SELECT -> "select" [] b = BTN_LEFT -> "left" [] b = BTN_UP -> "up"
    [] b = BTN_DOWN -> "down" [] b = BTN_RIGHT -> "right" [] OTHER -> "none"

PlayAction(b) ==
  CASE b = BTN_LEFT -> "rewind" [] b = BTN_RIGHT -> "stop" [] b = BTN_UP -> "pause"
    [] b = BTN_DOWN -> "resume" [] OTHER -> "none"

\* A tick that runs the LSSelect case / the MSProcess case
SelectTick == pc = "loop" /\ mode = LCDSeq /\ lcdS = LSSelect /\ fsmRun' = <<"lcdFSM">>
ProcessTick == pc = "loop" /\ mode = MIDISeq /\ midiS = MSProcess /\ fsmRun' = <<"midiFSM">>

\* C1: in LSSelect, one acted-on press moves the cursor c of a playlist of
\* n >= 1 entries to max(c-1, 0) on Left, min(c+1, n-1) on Right, 0 on Up
\* and n-1 on Down, for every n the 16-bit count can hold.
C1_CursorUpdate ==
  [][SelectTick /\ plCount >= 1 =>
       /\ act' = "left" => plIndex' = Max(plIndex - 1, 0)
       /\ act' = "right" => plIndex' = Min(plIndex + 1, plCount - 1)
       /\ act' = "up" => plIndex' = 0
       /\ act' = "down" => plIndex' = plCount - 1]_vars

\* C2: once setup found n >= 1 files, the cursor is always an index into
\* the playlist: 0 <= plIndex <= n-1, in either mode.
C2_CursorInRange == plCount >= 1 => (plIndex >= 0 /\ plIndex <= plCount - 1)

C2_Witness ==
  /\ mode = MIDISeq /\ midiS = MSProcess
  /\ plCount = MaxSmallCount /\ plIndex = plCount - 1

\* C3: a tick acts on Select exactly when the mode goes from LCDSeq to
\* MIDISeq in it, and in such a tick fname holds the playlist entry at the
\* cursor and is left as it is, as is the cursor.
C3_SelectConfirms ==
  [][/\ (SelectTick /\ act' = "select") <=> (mode = LCDSeq /\ mode' = MIDISeq)
     /\ (SelectTick /\ act' = "select") =>
          /\ fname = Entry(plIndex)
          /\ fname' = fname
          /\ plIndex' = plIndex]_vars

C3_Witness ==
  /\ act = "select" /\ mode = MIDISeq /\ midiS = MSBegin
  /\ plCount > 2 /\ plIndex = 1 /\ fname = Entry(1)

\* C4: a Process tick that acts on Stop leaves the playback FSM in MSClose
\* with the mode still MIDISeq, and from MSClose the next tick is the
\* playback FSM's, sends all-sound-off on the 16 channels and sets the mode
\* to LCDSeq: no navigation tick comes between.
C4_StopCloses ==
  [][/\ (ProcessTick /\ act' = "stop") =>
          (midiS' = MSClose /\ mode' = MIDISeq /\ pc' = "loop")
     /\ midiS = MSClose =>
          /\ pc = "loop" /\ mode = MIDISeq
          /\ fsmRun' = <<"midiFSM">>
          /\ Called(calls', "midiSilence")
          /\ out' = AllSoundOff16
          /\ mode' = LCDSeq]_vars

C4_Witness ==
  /\ act = "stop" /\ midiS = MSClose /\ mode = MIDISeq
  /\ calls[1] = "isEOF=false" /\ smfPos < smfLen

\* C5 as stated: a Process tick that acts on Rewind, end-of-data or not,
\* keeps the mode, stays in MSProcess, silences the 16 channels and calls
\* restart().
C5_RewindStaysInProcess ==
  [][(ProcessTick /\ act' = "rewind") =>
        /\ mode' = MIDISeq
        /\ midiS' = MSProcess
        /\ EndsSilenced(out')
        /\ Called(calls', "restart")]_vars

\* C5 amended: a Process tick that acts on Rewind keeps the mode, silences
\* the 16 channels and calls restart(); it stays in MSProcess when isEOF()
\* was false in that tick and goes to MSClose when it was true.
C5_RewindAmended ==
  [][(ProcessTick /\ act' = "rewind") =>
        /\ mode' = MIDISeq
        /\ midiS' = (IF calls'[1] = "isEOF=true" THEN MSClose ELSE MSProcess)
        /\ EndsSilenced(out')
        /\ Called(calls', "restart")
        /\ smfPos' = 0]_vars

C5_Witness ==
  /\ act = "rewind" /\ midiS = MSProcess /\ mode = MIDISeq
  /\ Called(calls, "restart") /\ EndsSilenced(out)

\* C6: when load() fails, the Load tick goes to MSClose and does not halt;
\* the session then has never been in MSProcess nor called getNextEvent();
\* the next tick is the Close step, which sets the mode to LCDSeq and
\* leaves the process running.
C6_LoadFailure ==
  [][/\ (midiS = MSLoad /\ session'.load = "fail") =>
          (midiS' = MSClose /\ mode' = MIDISeq /\ pc' = "loop")
     /\ session.load = "fail" =>
          /\ midiS = MSClose /\ mode = MIDISeq /\ pc = "loop"
          /\ ~session.processed /\ ~session.advCalled
          /\ ~Called(calls', "getNextEvent")
          /\ midiS' = MSBegin /\ mode' = LCDSeq /\ pc' = "loop"]_vars

C6_Witness ==
  /\ session.load = "fail" /\ midiS = MSClose /\ errMsg = "SMF error"
  /\ calls = <<"load">>

\* C7: a Process tick that acts on Pause calls pause(true) and ends its
\* output with all-sound-off on the 16 channels; one that acts on Resume
\* calls pause(false) and never midiSilence(), so it sends nothing but what
\* getNextEvent() played; in both the mode is kept and the FSM state is the
\* one the isEOF() test alone gives.
C7_PauseResume ==
  [][ProcessTick =>
       /\ act' = "pause" =>
            /\ Called(calls', "pause(true)") /\ ~Called(calls', "pause(false)")
            /\ Called(calls', "midiSilence")
            /\ EndsSilenced(out')
            /\ smfPaused'
       /\ act' = "resume" =>
            /\ Called(calls', "pause(false)") /\ ~Called(calls', "pause(true)")
            /\ ~Called(calls', "midiSilence")
            /\ ~EndsSilenced(out')
            /\ Len(out') <= FileEvent.size
            /\ ~smfPaused'
       /\ act' \in {"pause", "resume"} =>
            /\ mode' = mode
            /\ midiS' = (IF calls'[1] = "isEOF=true" THEN MSClose ELSE MSProcess)]_vars

C7_Witness ==
  /\ act = "resume" /\ midiS = MSProcess /\ ~smfPaused
  /\ Called(calls, "pause(false)") /\ out = <<>>

\* C8: when setup ends with plCount 0, an error message is on the display
\* and the process has halted: no tick has run, both FSMs and the mode are
\* as constructed; and a halted process takes no further step.
C8_NoFilesHalts ==
  [][/\ (pc' # "setup" /\ plCount' = 0) =>
          /\ pc' = "halted" /\ errMsg' # ""
          /\ fsmRun' = <<>> /\ calls' = <<>>
          /\ mode' = LCDSeq /\ lcdS' = LSBegin /\ midiS' = MSBegin
     /\ pc = "halted" => FALSE]_vars

C8_Witness == pc = "halted" /\ errMsg = "No files" /\ plCount = 0

\* C9: the action of a Select tick is that of the first pressed button in
\* the order Select, Left, Up, Down, Right, the action of a Process tick
\* that of the first pressed in the order Left, Right, Up, Down, and the
\* effects of the tick are those of that one action; with nothing pressed
\* the navigation FSM stays in LSSelect.
C9_ButtonPriority ==
  [][/\ SelectTick =>
          /\ act' = NavAction(FirstPressed(
                 <<BTN_SELECT, BTN_LEFT, BTN_UP, BTN_DOWN, BTN_RIGHT>>, pressed'))
          /\ act' = "select" => (plIndex' = plIndex /\ lcdS' = LSBegin)
          /\ act' \in {"left", "up", "down", "right"} =>
               (mode' = LCDSeq /\ lcdS' = LSShowFile)
          /\ pressed' = {} =>
               (act' = "none" /\ lcdS' = LSSelect /\ plIndex' = plIndex /\ mode' = LCDSeq)
     /\ ProcessTick =>
          /\ act' = PlayAction(FirstPressed(
                 <<BTN_LEFT, BTN_RIGHT, BTN_UP, BTN_DOWN>>, pressed'))
          /\ Called(calls', "restart") <=> act' = "rewind"
          /\ Called(calls', "pause(true)") <=> act' = "pause"
          /\ Called(calls', "pause(false)") <=> act' = "resume"
          /\ Called(calls', "midiSilence") <=> act' \in {"rewind", "pause"}
          /\ act' = "stop" => midiS' = MSClose
          /\ (act' # "stop" /\ calls'[1] = "isEOF=false") => midiS' = MSProcess]_vars

C9_Witness ==
  /\ pressed = Buttons /\ act = "select" /\ mode = MIDISeq /\ lcdS = LSBegin

\* The transitions the two switch statements can take in one call
LcdEdges ==
  {<<LSBegin, LSShowFile>>, <<LSBegin, LSBegin>>, <<LSShowFile, LSSelect>>,
   <<LSSelect, LSSelect>>, <<LSSelect, LSShowFile>>, <<LSSelect, LSBegin>>}

MidiEdges ==
  {<<MSBegin, MSLoad>>, <<MSLoad, MSProcess>>, <<MSLoad, MSClose>>,
   <<MSProcess, MSProcess>>, <<MSProcess, MSClose>>, <<MSClose, MSBegin>>}

\* C10: a tick of loop() runs exactly one FSM, the one of the current mode;
\* that FSM takes one transition of its switch or stays, the other FSM's
\* variables are left alone, and the mode after the tick is the one the FSM
\* returned: MIDISeq from the Select confirmation, LCDSeq from MSClose, the
\* mode it was given otherwise.
C10_OneFsmPerTick ==
  [][pc = "loop" =>
       /\ mode = LCDSeq =>
            /\ fsmRun' = <<"lcdFSM">>
            /\ <<lcdS, lcdS'>> \in LcdEdges
            /\ UNCHANGED midiVars
            /\ mode' = (IF act' = "select" THEN MIDISeq ELSE LCDSeq)
       /\ mode = MIDISeq =>
            /\ fsmRun' = <<"midiFSM">>
            /\ <<midiS, midiS'>> \in MidiEdges
            /\ UNCHANGED lcdVars
            /\ mode' = (IF midiS = MSClose THEN LCDSeq ELSE MIDISeq)]_vars

C10_Witness ==
  /\ fsmRun = <<"midiFSM">> /\ mode = LCDSeq /\ midiS = MSBegin
  /\ lcdS = LSBegin /\ plFileOpen

\* C11: each ShowFile step prints the left marker as a blank exactly when
\* the cursor is 0 and the right marker as a blank exactly when the cursor
\* is n-1, '<' and '>' otherwise; with n = 1 both are blank.
C11_Markers ==
  [][(pc = "loop" /\ mode = LCDSeq /\ lcdS = LSShowFile /\ plCount >= 1) =>
       /\ marks'[1] \in {" ", "<"} /\ marks'[2] \in {" ", ">"}
       /\ marks'[1] = " " <=> plIndex = 0
       /\ marks'[2] = " " <=> plIndex = plCount - 1
       /\ plCount = 1 => marks' = <<" ", " ">>
       /\ plIndex' = plIndex /\ lcdS' = LSSelect]_vars

C11_Witness ==
  /\ lcdS = LSSelect /\ plCount = MaxSmallCount /\ plIndex = plCount - 1
  /\ marks = <<"<", " ">>

\* C13: a tick taken in MIDISeq mode leaves the cursor and fname as they
\* are, and throughout MIDISeq mode fname is the playlist entry at the
\* cursor, the one that was confirmed.
C13_PlaybackFrame ==
  [][mode = MIDISeq =>
       /\ plIndex' = plIndex
       /\ fname' = fname
       /\ fname = Entry(plIndex)
       /\ fname' = Entry(plIndex')]_vars

C13_Witness ==
  /\ mode = LCDSeq /\ fsmRun = <<"midiFSM">> /\ session.load = "none"
  /\ plCount > 2 /\ plIndex = 2 /\ fname = Entry(2)

\* C14: the mode goes from MIDISeq to LCDSeq only in a tick that starts in
\* MSClose, and every tick that starts in MSClose calls close() then
\* midiSilence(), sends exactly the all-sound-off bytes of the 16 channels,
\* ends in LCDSeq mode and puts the playback FSM back in MSBegin.
C14_CloseStep ==
  [][/\ (mode = MIDISeq /\ mode' = LCDSeq) => midiS = MSClose
     /\ (pc = "loop" /\ midiS = MSClose) =>
          /\ calls' = <<"close", "midiSilence">>
          /\ out' = AllSoundOff16
          /\ mode' = LCDSeq
          /\ midiS' = MSBegin
          /\ ~smfPaused']_vars

C14_Witness ==
  /\ mode = LCDSeq /\ midiS = MSBegin /\ calls = <<"close", "midiSilence">>
  /\ out = AllSoundOff16 /\ fsmRun = <<"midiFSM">>

\* C15: a Process tick calls getNextEvent() exactly when isEOF() was false
\* in it; when isEOF() was true the FSM ends the tick in MSClose, whatever
\* is pressed, and the keys are polled all the same: the tick acts on the
\* first pressed one.
C15_EofTick ==
  [][ProcessTick =>
       /\ calls'[1] \in {"isEOF=true", "isEOF=false"}
       /\ calls'[1] = "isEOF=true" <=> smfPos >= smfLen
       /\ Called(calls', "getNextEvent") <=> calls'[1] = "isEOF=false"
       /\ calls'[1] = "isEOF=true" =>
            /\ midiS' = MSClose
            /\ act' = PlayAction(FirstPressed(
                   <<BTN_LEFT, BTN_RIGHT, BTN_UP, BTN_DOWN>>, pressed'))
            /\ act' = "rewind" => Called(calls', "restart")
            /\ act' = "pause" => Called(calls', "pause(true)")
            /\ act' = "resume" => Called(calls', "pause(false)")]_vars

C15_Witness ==
  /\ act = "rewind" /\ midiS = MSClose /\ mode = MIDISeq
  /\ calls = <<"isEOF=true", "midiSilence", "restart">>

\* Message k (0..15) of an all-sound-off run, byte by byte
SoundOffMessage(k) == <<176 + k, 120, 0>>

\* C16: whenever a tick called midiSilence(), the bytes it sent end with 48
\* bytes that are the 16 messages (0xB0 + ch), 120, 0 for ch = 0..15 in
\* ascending order, and before them is nothing but what getNextEvent()
\* played in that tick.
C16_SilenceBytes ==
  Called(calls, "midiSilence") =>
    /\ Len(out) \in {3 * 16, 3 * 16 + FileEvent.size}
    /\ \A k \in 0..15 :
         SubSeq(out, Len(out) - 48 + 3 * k + 1, Len(out) - 48 + 3 * k + 3)
           = SoundOffMessage(k)
    /\ Len(out) > 48 => ~Called(calls, "close") /\ Called(calls, "getNextEvent")

C16_Witness ==
  /\ Called(calls, "midiSilence") /\ act = "pause" /\ Len(out) = 48
  /\ out[46] = 191 /\ out[47] = 120 /\ out[48] = 0

\* C20: the FSM that does not hold control is in its Begin state: in LCDSeq
\* mode the playback FSM is in MSBegin, in MIDISeq mode the navigation FSM
\* is in LSBegin; so the first playback tick after a confirmation is the
\* MSBegin case, and the first navigation tick after a Close is the LSBegin
\* case, which leads to ShowFile before any key is polled.
C20_IdleFsmAtBegin ==
  [][/\ mode = LCDSeq => midiS = MSBegin
     /\ mode = MIDISeq => lcdS = LSBegin
     /\ mode' = LCDSeq => midiS' = MSBegin
     /\ mode' = MIDISeq => lcdS' = LSBegin
     /\ (mode = MIDISeq /\ midiS = MSBegin) => midiS' = MSLoad
     /\ (mode = LCDSeq /\ lcdS = LSBegin /\ pc = "loop") =>
          (lcdS' \in {LSShowFile, LSBegin} /\ pressed' = {} /\ act' = "none")]_vars

C20_Witness ==
  /\ mode = MIDISeq /\ midiS = MSProcess /\ lcdS = LSBegin /\ plIndex = 1

\* C12: in MIDISeq mode, once the playback FSM is in MSClose (a failed load,
\* a Stop, or an end-of-data tick put it there) or is in MSProcess with the
\* sequencer at end-of-data, the mode eventually becomes LCDSeq.
C12_ReturnsToNavigation ==
  (mode = MIDISeq /\ (midiS = MSClose \/ (midiS = MSProcess /\ smfPos >= smfLen)))
    ~> (mode = LCDSeq)

C12_Witness ==
  /\ mode = MIDISeq /\ midiS = MSProcess /\ smfLen > 0 /\ smfPos >= smfLen
  /\ calls = <<"isEOF=false", "getNextEvent">>

\* C17: for every event given to midiCallback, with status byte data[0],
\* channel 0..15 and size >= 1, exactly size bytes go to Serial1: for a
\* channel status (0x80..0xEF) the status with the channel in its low nibble,
\* then data[1..size-1] unchanged; for any other status data[0..size-1]
\* unchanged.
C17_CallbackBytes ==
  calls = <<"midiCallback">> =>
    LET s == cbEvent.data[1] IN
      /\ Len(out) = cbEvent.size
      /\ \A k \in 2..cbEvent.size : out[k] = cbEvent.data[k]
      /\ (s >= 128 /\ s <= 239) =>
           (out[1] \div 16 = s \div 16 /\ out[1] % 16 = cbEvent.channel)
      /\ ~(s >= 128 /\ s <= 239) => out[1] = s

C17_Witness ==
  /\ calls = <<"midiCallback">> /\ cbEvent.data[1] = 224 /\ cbEvent.channel = 15
  /\ cbEvent.size = 3 /\ out = <<239, 127, 0>>

\* C18: as far as the scan has come, the build has written one record for
\* each entry that is a regular file whose name ends in .MID whatever the
\* case, in scan order, and nothing for any other entry, a name shorter than
\* the extension among them; count is the number of records written.
C18_BuildRecords ==
  LET Keep(e) ==
        /\ e.isFile
        /\ Len(e.name) >= Len(MIDI_EXT)
        /\ StrCaseEqual(MIDI_EXT, SubSeq(e.name, Len(e.name) - Len(MIDI_EXT) + 1, Len(e.name)))
      kept == SelectSeq(SubSeq(dir, 1, dpos), Keep)
  IN /\ written = [k \in 1..Len(kept) |-> kept[k].name]
     /\ bcount = Len(written)
     /\ wpos = FNAME_SIZE * bcount

\* C19: after the build, the LSShowFile step with the cursor at i holds in
\* fname the 13 bytes at offset 13*i of the playlist file, and the string
\* there is the i-th name the build wrote.
C19_RoundTrip ==
  pc = "show" =>
    /\ plIndex < plCount
    /\ plCount = Len(written)
    /\ wpos = FNAME_SIZE * plCount
    /\ Len(plBytes) >= wpos
    /\ \A k \in 1..FNAME_SIZE : fname[k] = plBytes[FNAME_SIZE * plIndex + k]
    /\ CStr(fname) = written[plIndex + 1]

C19_Witness ==
  /\ pc = "show" /\ plIndex = 1 /\ plCount = 2
  /\ CStr(fname) = <<98, 46, 109, 105, 100>>
  /\ written[1] = <<76, 79, 78, 71, 78, 65, 77, 69, 46, 77, 73, 68>>
  /\ fname[FNAME_SIZE - 1] = 68

====
